---- MODULE Spec2Model ----
(***************************************************************************)
(* Wiki-link translator (src/translator/script.js).  A text is a sequence  *)
(* of one-character strings.  convertText is an async function: it         *)
(* suspends at every fetch, so each action below is one run of the code    *)
(* between two suspension points (the click handler up to the first fetch, *)
(* the continuation after a response up to the next fetch or to the end).  *)
(***************************************************************************)
EXTENDS Integers, Sequences, FiniteSets, TLC

\* ------------------------------------------------------------------ bounds

\* Longest input, counted in pieces of InputParts.
MaxParts == 2

\* How many times the user triggers a conversion when a trigger may follow
\* another (SpecUI).
MaxClicks == 2

\* ------------------------------------------------------- characters, texts

\* \w of a RegExp without the u flag: ASCII letters, digits and underscore.
\* The Tamil letter "த" of the inputs is a letter, but no \w.
WordChars == {"a", "b", "A"}

\* \s of a RegExp, and what String.prototype.trim removes.
SpaceChars == {" "}

IsWordChar(c) == c \in WordChars

IsSpace(c) == c \in SpaceChars

\* null and undefined of JavaScript: values that are no text.
Null == <<"null">>

Undefined == <<"undefined">>

LBracket == <<"[", "[">>

RBracket == <<"]", "]">>

Min(S) == CHOOSE x \in S : \A y \in S : x <= y

\* s.substring(from - 1, to) with 1-based inclusive bounds.
Sub(s, from, to) == IF from > to THEN <<>> ELSE SubSeq(s, from, to)

\* Does pat occur in s with its first character at position i?
StartsAt(s, pat, i) ==
  /\ i >= 1
  /\ i + Len(pat) - 1 <= Len(s)
  /\ \A j \in 1..Len(pat) : s[i + j - 1] = pat[j]

\* Position of the first occurrence of pat in s at or after from; 0 if none.
IndexOf(s, pat, from) ==
  LET C == {i \in from..(Len(s) - Len(pat) + 1) : StartsAt(s, pat, i)}
  IN IF C = {} THEN 0 ELSE Min(C)

\* s.includes(c) for a one-character c.
Includes(s, c) == \E i \in 1..Len(s) : s[i] = c

\* s.split(c)[0]: the part of s before the first c (all of s without c).
SplitFirst(s, c) ==
  LET p == IndexOf(s, <<c>>, 1)
  IN IF p = 0 THEN s ELSE Sub(s, 1, p - 1)

\* s.trim()
Trim(s) ==
  LET N == {i \in 1..Len(s) : ~IsSpace(s[i])}
  IN IF N = {} THEN <<>>
     ELSE Sub(s, Min(N), CHOOSE i \in N : \A j \in N : j <= i)

RECURSIVE Concat(_)
\* parts.join('')
Concat(ss) == IF ss = <<>> THEN <<>> ELSE Head(ss) \o Concat(Tail(ss))

\* ------------------------------------------------------ helper utilities

\* The characters escapeRegExp prefixes with a backslash (script.js:28),
\* restricted to the characters of the model.
RegExpSpecial == {".", "(", ")", "|", "[", "]"}

\* escapeRegExp(s): one atom per character, <<"\\", c>> for a special
\* character and <<c>> for any other.  Both atoms match exactly c, which is
\* why the patterns built from a key below match the key literally.
escapeRegExp(s) ==
  [i \in 1..Len(s) |-> IF s[i] \in RegExpSpecial THEN <<"\\", s[i]>> ELSE <<s[i]>>]

\* The character an atom of an escaped pattern matches.
AtomChar(atom) == atom[Len(atom)]

\* hasParentheses(s): /\(.+\)/.test(s).  The model has no line terminator,
\* so "." matches every character.
hasParentheses(s) ==
  \E i \in 1..Len(s) : \E j \in (i + 2)..Len(s) : s[i] = "(" /\ s[j] = ")"

\* End of the match of /\s*\([^)]*\)/ that starts at position i; 0 if none.
\* \s* takes the whole run of spaces at i, "(" must follow, and [^)]* runs
\* to the first ")" after it.
ParenMatchEnd(s, i) ==
  LET N == {j \in i..Len(s) : ~IsSpace(s[j])}
      o == IF N = {} THEN 0 ELSE Min(N)
  IN IF o = 0 THEN 0
     ELSE IF s[o] # "(" THEN 0
     ELSE IndexOf(s, <<")">>, o + 1)

RECURSIVE StripFrom(_, _)
\* s.replace(/\s*\([^)]*\)/g, '') from position i on.
StripFrom(s, i) ==
  IF i > Len(s) THEN <<>>
  ELSE LET e == ParenMatchEnd(s, i)
       IN IF e # 0 THEN StripFrom(s, e + 1)
          ELSE <<s[i]>> \o StripFrom(s, i + 1)

\* stripParentheses(s)
stripParentheses(s) == Trim(StripFrom(s, 1))

\* ---------------------------------------------------- bracketed references

\* The next match of bracketRegex /\[\[([\s\S]*?)\]\]/g at or after from:
\* <<p, q>> with "[[" at p and the first "]]" after it at q; <<0, 0>> if none.
NextBracket(s, from) ==
  LET p == IndexOf(s, LBracket, from)
      q == IF p = 0 THEN 0 ELSE IndexOf(s, RBracket, p + 2)
  IN IF q = 0 THEN <<0, 0>> ELSE <<p, q>>

RECURSIVE BracketMatchesFrom(_, _)
BracketMatchesFrom(s, from) ==
  LET pq == NextBracket(s, from)
  IN IF pq[1] = 0 THEN <<>>
     ELSE <<[full |-> Sub(s, pq[1], pq[2] + 1), inner |-> Sub(s, pq[1] + 2, pq[2] - 1)]>>
          \o BracketMatchesFrom(s, pq[2] + 2)

\* [...inputText.matchAll(bracketRegex)]: each match with its capture group.
BracketMatches(s) == BracketMatchesFrom(s, 1)

\* Missing the second trim: the part before the pipe keeps its padding.
NormalizeKeyNoTrim(inner) ==
  LET raw == Trim(inner)
  IN IF Includes(raw, "|") THEN SplitFirst(raw, "|") ELSE raw

\* The key of a bracket interior (script.js:125-129, again at 238-239).
NormalizeKey(inner) ==
  LET raw == Trim(inner)
  IN IF Includes(raw, "|") THEN Trim(SplitFirst(raw, "|")) ELSE raw

\* ----------------------------------------------------------- the mapping
\* A Map keeps its keys in insertion order: a sequence of entries, at most
\* one per sourceTitle.

MapHas(m, k) == \E i \in 1..Len(m) : m[i].sourceTitle = k

MapIndex(m, k) == CHOOSE i \in 1..Len(m) : m[i].sourceTitle = k

\* mapping.set(k, e): in place for a key already present, appended otherwise.
MapSet(m, k, e) ==
  IF MapHas(m, k) THEN [m EXCEPT ![MapIndex(m, k)] = e] ELSE Append(m, e)

\* Array.from(mapping.keys())
MapKeys(m) == [i \in 1..Len(m) |-> m[i].sourceTitle]

\* { sourceTitle: raw }: the other fields are undefined.
NewEntry(raw) ==
  [sourceTitle |-> raw, targetTitleRaw |-> Undefined,
   bracketReplacement |-> Undefined, plainReplacement |-> Undefined]

\* A value a JavaScript condition takes as true (for texts: not empty).
Truthy(x) == x \notin {Null, Undefined, <<>>}

RECURSIVE ExtractNoDedup(_, _)
\* Extraction without the mapping.has test: one entry per span.
ExtractNoDedup(ms, m) ==
  IF ms = <<>> THEN m
  ELSE ExtractNoDedup(Tail(ms), Append(m, NewEntry(NormalizeKey(Head(ms).inner))))

RECURSIVE Extract(_, _)
\* The loop over the matches (script.js:124-134).
Extract(ms, m) ==
  IF ms = <<>> THEN m
  ELSE LET raw == NormalizeKey(Head(ms).inner)
       IN Extract(Tail(ms), IF MapHas(m, raw) THEN m ELSE MapSet(m, raw, NewEntry(raw)))

\* ------------------------------------------------------------ the entries

\* A fallback entry that forgets the plain replacement.
FallbackEntryNoPlain(entry) ==
  [entry EXCEPT !.targetTitleRaw = Null,
                !.bracketReplacement = LBracket \o entry.sourceTitle \o RBracket]

\* The entry of a key that could not be resolved (script.js:164-169,
\* 187-192, 217-222).
FallbackEntry(entry) ==
  [entry EXCEPT !.targetTitleRaw = Null,
                !.bracketReplacement = LBracket \o entry.sourceTitle \o RBracket,
                !.plainReplacement = entry.sourceTitle]

\* The entry of a key resolved to targetTitle (script.js:197-213).
ResolvedEntry(entry, targetTitle) ==
  [entry EXCEPT !.targetTitleRaw = targetTitle,
                !.bracketReplacement =
                   IF hasParentheses(targetTitle)
                   THEN LBracket \o targetTitle \o <<"|">> \o RBracket
                   ELSE LBracket \o targetTitle \o RBracket,
                !.plainReplacement = stripParentheses(targetTitle)]

\* ------------------------------------------------------- the text rewriter

\* A replacer that looks the interior up as it is written, display text
\* included.
BracketReplacerRawKey(match, m) ==
  LET innerTrim == Trim(match.inner)
  IN IF MapHas(m, innerTrim) /\ Truthy(m[MapIndex(m, innerTrim)].bracketReplacement)
     THEN m[MapIndex(m, innerTrim)].bracketReplacement
     ELSE match.full

\* The replacer function of the bracket pass (script.js:237-244).
BracketReplacer(match, m) ==
  LET innerTrim == NormalizeKey(match.inner)
  IN IF MapHas(m, innerTrim) /\ Truthy(m[MapIndex(m, innerTrim)].bracketReplacement)
     THEN m[MapIndex(m, innerTrim)].bracketReplacement
     ELSE match.full

RECURSIVE BracketPassFrom(_, _, _)
BracketPassFrom(s, m, from) ==
  LET pq == NextBracket(s, from)
  IN IF pq[1] = 0 THEN Sub(s, from, Len(s))
     ELSE Sub(s, from, pq[1] - 1)
          \o BracketReplacer([full |-> Sub(s, pq[1], pq[2] + 1),
                              inner |-> Sub(s, pq[1] + 2, pq[2] - 1)], m)
          \o BracketPassFrom(s, m, pq[2] + 2)

\* output.replace(bracketRegex, replacer)
BracketPass(s, m) == BracketPassFrom(s, m, 1)

\* Is position i of s (between s[i-1] and s[i]) a \b word boundary?
WordBoundary(s, i) ==
  LET before == i - 1 >= 1 /\ i - 1 <= Len(s) /\ IsWordChar(s[i - 1])
      after == i >= 1 /\ i <= Len(s) /\ IsWordChar(s[i])
  IN before # after

\* The canonical form of a character under the i flag.
CaseFold(c) == IF c = "A" THEN "a" ELSE c

\* Do the atoms of esc match s from position i on?
AtomsAt(s, esc, i, ignoreCase) ==
  /\ i + Len(esc) - 1 <= Len(s)
  /\ \A j \in 1..Len(esc) :
       IF ignoreCase THEN CaseFold(s[i + j - 1]) = CaseFold(AtomChar(esc[j]))
       ELSE s[i + j - 1] = AtomChar(esc[j])

\* The pattern of the key with the i flag set.
WordPatternIgnoreCase(src, guarded, rev) ==
  [alts |-> <<escapeRegExp(src)>>, guarded |-> guarded, ignoreCase |-> TRUE]

\* The pattern of the bare-text pass for the key src.  script.js and
\* part_000: /\b<esc>\b/g, with (?<!\[\[) before and (?!\|) after it when
\* lookbehind is supported (script.js:265, 285).  part_001:
\* /\b(<esc>|<escBase>)\b/gi with the same guards (part_001:130-138, 151).
WordPattern(src, guarded, rev) ==
  IF rev = "part_001"
  THEN [alts |-> <<escapeRegExp(src), escapeRegExp(stripParentheses(src))>>,
        guarded |-> guarded, ignoreCase |-> TRUE]
  ELSE [alts |-> <<escapeRegExp(src)>>, guarded |-> guarded, ignoreCase |-> FALSE]

\* Can the alternative esc of pat end a match that starts at position i?
AlternativeAt(s, pat, esc, i) ==
  /\ AtomsAt(s, esc, i, pat.ignoreCase)
  /\ WordBoundary(s, i + Len(esc))
  /\ pat.guarded => ~(i + Len(esc) <= Len(s) /\ s[i + Len(esc)] = "|")

\* Length of the match of pat in s that starts at position i; -1 if none.
\* The alternatives are tried in order.
MatchLength(s, pat, i) ==
  IF ~WordBoundary(s, i) \/ (pat.guarded /\ i >= 3 /\ s[i - 2] = "[" /\ s[i - 1] = "[")
  THEN -1
  ELSE LET ok == {n \in 1..Len(pat.alts) : AlternativeAt(s, pat, pat.alts[n], i)}
       IN IF ok = {} THEN -1 ELSE Len(pat.alts[Min(ok)])

RECURSIVE ReplaceFrom(_, _, _, _)
\* s.replace(pat, repl) with the g flag, from position i on.  After an empty
\* match the search resumes one character further.  repl holds no "$".
ReplaceFrom(s, pat, repl, i) ==
  IF i > Len(s) + 1 THEN <<>>
  ELSE LET n == MatchLength(s, pat, i)
       IN IF n > 0 THEN repl \o ReplaceFrom(s, pat, repl, i + n)
          ELSE (IF n = 0 THEN repl ELSE <<>>)
               \o Sub(s, i, IF i <= Len(s) THEN i ELSE i - 1)
               \o ReplaceFrom(s, pat, repl, i + 1)

\* The branch taken when lookbehind is supported (script.js:265-266).
LookbehindReplace(s, src, repl, rev) ==
  ReplaceFrom(s, WordPattern(src, TRUE, rev), repl, 1)

RECURSIVE SplitParts(_, _)
\* The parts of the fallback branch (script.js:270-282): the text cut at
\* the bracketed segments, from position lastIndex on.
SplitParts(s, lastIndex) ==
  LET pq == NextBracket(s, lastIndex)
  IN IF pq[1] = 0 THEN <<[text |-> Sub(s, lastIndex, Len(s)), bracket |-> FALSE]>>
     ELSE <<[text |-> Sub(s, lastIndex, pq[1] - 1), bracket |-> FALSE],
            [text |-> Sub(s, pq[1], pq[2] + 1), bracket |-> TRUE]>>
          \o SplitParts(s, pq[2] + 2)

\* The branch taken without lookbehind (script.js:268-289).
SegmentReplace(s, src, repl, rev) ==
  LET parts == SplitParts(s, 1)
  IN Concat([i \in 1..Len(parts) |->
               IF parts[i].bracket THEN parts[i].text
               ELSE ReplaceFrom(parts[i].text, WordPattern(src, FALSE, rev), repl, 1)])

\* One round of the loop over mapping.entries() (script.js:249-295).
BareStep(output, info, lookbehindSupported, rev) ==
  IF ~Truthy(info.plainReplacement) THEN output
  ELSE IF lookbehindSupported
       THEN LookbehindReplace(output, info.sourceTitle, info.plainReplacement, rev)
       ELSE SegmentReplace(output, info.sourceTitle, info.plainReplacement, rev)

RECURSIVE BarePassFrom(_, _, _, _, _)
BarePassFrom(output, m, lookbehindSupported, rev, i) ==
  IF i > Len(m) THEN output
  ELSE BarePassFrom(BareStep(output, m[i], lookbehindSupported, rev), m,
                    lookbehindSupported, rev, i + 1)

\* The bare-text pass over the bracket-rewritten text.
BarePass(output, m, lookbehindSupported, rev) ==
  BarePassFrom(output, m, lookbehindSupported, rev, 1)

\* The output of a conversion (script.js:232-295).
ComposeOutput(text, m, lookbehindSupported, rev) ==
  BarePass(BracketPass(text, m), m, lookbehindSupported, rev)

\* ------------------------------------------------------------- environment

\* The pieces an input text is made of: the delimiters on their own, bare
\* words (alone, between spaces, with a parenthesized suffix), and whole
\* references (plain, padded and with display text, with a parenthesized
\* suffix, with a title that ends in another title), a reference followed
\* by its title in the other letter case, a reference in Tamil script
\* followed by its title between spaces, and a reference followed by
\* another title.
InputParts ==
  { <<"[", "[">>, <<"]", "]">>, <<"|">>, <<" ">>, <<"a">>,
    <<" ", "a", " ">>,
    <<" ", "a", " ", "(", "b", ")", " ">>,
    <<"[", "[", "a", "]", "]">>,
    <<"[", "[", " ", "a", " ", "|", "b", "]", "]">>,
    <<"[", "[", "a", " ", "(", "b", ")", "]", "]">>,
    <<"[", "[", "b", " ", "a", "]", "]">>,
    <<"[", "[", "A", "]", "]", " ", "a", " ">>,
    <<"[", "[", "த", "]", "]", " ", "த", " ">>,
    <<"[", "[", "b", "]", "]", " ", "a", " ">> }

RECURSIVE TextsOf(_)
\* The texts made of at most n pieces.
TextsOf(n) ==
  IF n = 0 THEN {<<>>}
  ELSE LET shorter == TextsOf(n - 1)
       IN shorter \cup {t \o p : t \in shorter, p \in InputParts}

\* What the user may have typed into the input box.
Inputs == TextsOf(MaxParts)

\* The inputs of the runs with several triggers: one piece shorter.
UIInputs == TextsOf(MaxParts - 1)

\* The wikibase_item values the source wiki may answer with.
WikibaseItems == {<<"Q1">>}

\* A title a page of the source wiki can have: not empty, none of "[", "]",
\* "|".  Only for such a title does the source wiki know a wikibase_item.
IsPageTitle(k) == k # <<>> /\ \A i \in 1..Len(k) : k[i] \notin {"[", "]", "|"}

\* The titles the registry may answer with.  A page title holds none of
\* "[", "]", "|" (nor "$").
TargetTitles ==
  { <<"b">>, <<"b", " ", "a">>, <<"b", " ", "(", "a", ")">>, <<"b", " ", "(", ")">> }

\* Math.round(n / d) for n >= 0, d > 0.
Round(n, d) == (2 * n + d) \div (2 * d)

\* ------------------------------------------------------------------- state

VARIABLES
  revision,       \* the revision of the script that is deployed
  inputBox,       \* $("inputBox").value
  outputBox,      \* $("outputBox").textContent
  progressBar,    \* the percentage last given to setProgress
  progressText,   \* the stage of the text last given to setProgress
  pc,             \* where convertText stands
  inputText,      \* the conversion's copy of the input
  mapping,        \* the conversion's Map
  keys,           \* Array.from(mapping.keys())
  idx,            \* position of the for-of loop in keys
  total,          \* keys.length
  done,           \* the counter of resolved keys
  wikibaseItem,   \* the id the source wiki gave for the current key
  fetches,        \* the requests issued so far, in order
  replies,        \* what came back for each answered request, in order
  lookbehind,     \* outcome of the lookbehindSupported probe
  idleTimers,     \* pending setTimeout(() => setProgress(0, "Idle"), 600)
  reports,        \* the calls of setProgress since the last trigger, in order
  suspended,      \* the conversions awaiting a response besides the one in view
  clicks,         \* how many times a conversion was triggered
  call,           \* which trigger started the call of convertText in view
  latest          \* what the call of the last trigger has written to the output box

vars ==
  <<revision, inputBox, outputBox, progressBar, progressText, pc, inputText, mapping, keys,
    idx, total, done, wikibaseItem, fetches, replies, lookbehind, idleTimers, reports,
    suspended, clicks, call, latest>>

conversion == <<inputText, mapping, keys, idx, total, done, wikibaseItem, call>>

\* The state after DOMContentLoaded and the user's typing of one of texts,
\* for revision rev.
InitOf(rev, texts) ==
  /\ revision = rev
  /\ inputBox \in texts
  /\ outputBox = <<>>
  /\ progressBar = 0
  /\ progressText = "Idle"
  /\ pc = "ready"
  /\ inputText = <<>>
  /\ mapping = <<>>
  /\ keys = <<>>
  /\ idx = 0
  /\ total = 0
  /\ done = 0
  /\ wikibaseItem = Null
  /\ fetches = <<>>
  /\ replies = <<>>
  /\ lookbehind = "unprobed"
  /\ idleTimers = 0
  /\ reports = <<>>
  /\ suspended = <<>>
  /\ clicks = 0
  /\ call = 0
  /\ latest = Undefined

\* src/translator/script.js; src/unnamed/part_000 is the same code but for
\* its layout.
Init == InitOf("script.js", Inputs)

\* src/unnamed/part_001, the revision with the case-insensitive bare-text
\* pattern and no progress report before a request.
InitPart001 == InitOf("part_001", Inputs)

\* The calls setProgress(pct, text) one run of the code makes, in order, as
\* pairs <<pct, text>>: the bar and the text show the last call, and the
\* calls are added to log.
setProgress(log, calls) ==
  /\ progressBar' = calls[Len(calls)][1]
  /\ progressText' = calls[Len(calls)][2]
  /\ reports' = log \o calls

\* The end of convertText (script.js:230-305): both passes, "Done", the
\* timer, the output box.
Finish(text, m, log, calls) ==
  /\ \E lb \in BOOLEAN :
       /\ lookbehind' = IF lb THEN "supported" ELSE "unsupported"
       /\ outputBox' = ComposeOutput(text, m, lb, revision)
  /\ setProgress(log, calls \o << <<90, "Composing">>, <<100, "Done">> >>)
  /\ idleTimers' = idleTimers + 1
  /\ pc' = "returned"
  /\ UNCHANGED fetches

\* The source lookups of all the keys that are left, issued at once.
QuerySourceParallel(ks, t, d, i, log, calls) ==
  /\ setProgress(log, Append(calls, <<20 + Round(d * 50, t), "Querying">>))
  /\ fetches' = fetches \o [n \in 1..(t - i + 1) |->
                              [api |-> "wikipedia", arg |-> ks[i + n - 1], key |-> i + n - 1]]
  /\ pc' = "awaitSource"
  /\ UNCHANGED <<outputBox, lookbehind, idleTimers>>

\* The top of the loop body for keys[i] up to its first await
\* (script.js:143-151).  part_001 reports no progress here (part_001:80-83):
\* the bar keeps what the code before the loop round has shown.
QuerySource(ks, t, d, i, log, calls) ==
  /\ IF revision = "part_001" THEN setProgress(log, calls)
     ELSE setProgress(log, Append(calls, <<20 + Round(d * 50, t), "Querying">>))
  /\ fetches' = Append(fetches, [api |-> "wikipedia", arg |-> ks[i], key |-> i])
  /\ pc' = "awaitSource"
  /\ UNCHANGED <<outputBox, lookbehind, idleTimers>>

\* The code from the top of loop round i to the next await, or to the end
\* of convertText when the keys are used up.  calls are the calls of
\* setProgress the code before the loop round has made, log the calls made
\* before this run of the code.
Continue(text, m, ks, t, d, i, log, calls) ==
  /\ inputText' = text
  /\ mapping' = m
  /\ keys' = ks
  /\ total' = t
  /\ done' = d
  /\ idx' = i
  /\ wikibaseItem' = Null
  /\ IF i <= t THEN QuerySource(ks, t, d, i, log, calls) ELSE Finish(text, m, log, calls)

\* The report of the finally block (script.js:226) when done has become d.
Resolved(d) == << <<70 + Round(d * 20, total), "Resolved">> >>

\* What the call of the last trigger has written when a run of the code
\* after a response ends: the text it writes if it is that call and returns.
Written == IF pc' = "returned" /\ call = clicks THEN outputBox' ELSE latest

\* The entry the loop is working on: mapping.get(key).
CurrentEntry == mapping[MapIndex(mapping, keys[idx])]

\* ----------------------------------------------------------------- actions

\* Click on Convert (or Ctrl+Enter) with a blank input (script.js:312-314,
\* 95-99).
ClickBlank ==
  /\ pc = "ready"
  /\ Trim(inputBox) = <<>>
  /\ setProgress(<<>>, << <<5, "Starting">> >>)
  /\ outputBox' = <<>>
  /\ inputText' = inputBox
  /\ pc' = "returned"
  /\ clicks' = clicks + 1
  /\ call' = clicks + 1
  /\ latest' = outputBox'
  /\ UNCHANGED <<revision, inputBox, mapping, keys, idx, total, done, wikibaseItem,
                 fetches, replies, lookbehind, idleTimers, suspended>>

\* The copy of a text without references loses its surrounding spaces.
ClickNoMatchesTrimmed ==
  /\ pc = "ready"
  /\ Trim(inputBox) # <<>>
  /\ BracketMatches(inputBox) = <<>>
  /\ setProgress(<<>>, << <<5, "Starting">> >>)
  /\ outputBox' = Trim(inputBox)
  /\ inputText' = inputBox
  /\ pc' = "returned"
  /\ clicks' = clicks + 1
  /\ call' = clicks + 1
  /\ latest' = outputBox'
  /\ UNCHANGED <<revision, inputBox, mapping, keys, idx, total, done, wikibaseItem,
                 fetches, replies, lookbehind, idleTimers, suspended>>

\* Click with an input that holds no bracketed reference (script.js:111-115).
ClickNoMatches ==
  /\ pc = "ready"
  /\ Trim(inputBox) # <<>>
  /\ BracketMatches(inputBox) = <<>>
  /\ setProgress(<<>>, << <<5, "Starting">> >>)
  /\ outputBox' = inputBox
  /\ inputText' = inputBox
  /\ pc' = "returned"
  /\ clicks' = clicks + 1
  /\ call' = clicks + 1
  /\ latest' = outputBox'
  /\ UNCHANGED <<revision, inputBox, mapping, keys, idx, total, done, wikibaseItem,
                 fetches, replies, lookbehind, idleTimers, suspended>>

\* Click with references: extraction, then the first request
\* (script.js:117-151).
ClickConvert ==
  /\ pc = "ready"
  /\ Trim(inputBox) # <<>>
  /\ BracketMatches(inputBox) # <<>>
  /\ LET m == Extract(BracketMatches(inputBox), <<>>)
     IN Continue(inputBox, m, MapKeys(m), Len(m), 0, 1, <<>>,
                 << <<5, "Starting">>, <<10, "Preparing">>, <<20, "Resolving">> >>)
  /\ clicks' = clicks + 1
  /\ call' = clicks + 1
  /\ latest' = Undefined
  /\ UNCHANGED <<revision, inputBox, replies, suspended>>

\* The source wiki answers without a wikibase_item (script.js:162-172, then
\* the finally block at 224-227).
SourceNoItem ==
  /\ pc = "awaitSource"
  /\ replies' = Append(replies, [kind |-> "none", value |-> <<>>])
  /\ Continue(inputText, MapSet(mapping, keys[idx], FallbackEntry(CurrentEntry)),
              keys, total, done + 2, idx + 1, reports, Resolved(done + 2))
  /\ latest' = Written
  /\ UNCHANGED <<revision, inputBox, suspended, clicks, call>>

\* The source wiki answers with a wikibase_item: on to the registry
\* (script.js:160-161, 174-177).
SourceItem ==
  /\ pc = "awaitSource"
  /\ IsPageTitle(keys[idx])
  /\ \E item \in WikibaseItems :
       /\ wikibaseItem' = item
       /\ replies' = Append(replies, [kind |-> "item", value |-> item])
       /\ fetches' = Append(fetches, [api |-> "wikidata", arg |-> item, key |-> idx])
  /\ IF revision = "part_001" THEN UNCHANGED <<progressBar, progressText, reports>>
     ELSE setProgress(reports, << <<40 + Round(done * 50, total), "Fetching">> >>)
  /\ pc' = "awaitRegistry"
  /\ UNCHANGED <<revision, inputBox, outputBox, inputText, mapping, keys, idx, total, done,
                 lookbehind, idleTimers, suspended, clicks, call, latest>>

\* A failed source lookup that is not caught: convertText rejects.
SourceErrorRejects ==
  /\ pc = "awaitSource"
  /\ replies' = Append(replies, [kind |-> "error", value |-> <<>>])
  /\ pc' = "rejected"
  /\ UNCHANGED <<revision, inputBox, outputBox, progressBar, progressText, conversion,
                 fetches, lookbehind, idleTimers, reports, suspended, clicks, latest>>

\* fetch or json() of the source lookup throws (script.js:215-227).
SourceError ==
  /\ pc = "awaitSource"
  /\ replies' = Append(replies, [kind |-> "error", value |-> <<>>])
  /\ Continue(inputText, MapSet(mapping, keys[idx], FallbackEntry(CurrentEntry)),
              keys, total, done + 1, idx + 1, reports, Resolved(done + 1))
  /\ latest' = Written
  /\ UNCHANGED <<revision, inputBox, suspended, clicks, call>>

\* The registry answers with the target wiki's title (script.js:183-184,
\* 197-213, 224-227).
RegistryTitle ==
  /\ pc = "awaitRegistry"
  /\ \E targetTitle \in TargetTitles :
       /\ replies' = Append(replies, [kind |-> "title", value |-> targetTitle])
       /\ Continue(inputText, MapSet(mapping, keys[idx], ResolvedEntry(CurrentEntry, targetTitle)),
                   keys, total, done + 1, idx + 1, reports, Resolved(done + 1))
  /\ latest' = Written
  /\ UNCHANGED <<revision, inputBox, suspended, clicks, call>>

\* The registry has no sitelink for the target wiki (script.js:185-195,
\* 224-227).
RegistryNoSitelink ==
  /\ pc = "awaitRegistry"
  /\ replies' = Append(replies, [kind |-> "none", value |-> <<>>])
  /\ Continue(inputText, MapSet(mapping, keys[idx], FallbackEntry(CurrentEntry)),
              keys, total, done + 2, idx + 1, reports, Resolved(done + 2))
  /\ latest' = Written
  /\ UNCHANGED <<revision, inputBox, suspended, clicks, call>>

\* A failed registry lookup that is not caught: convertText rejects.
RegistryErrorRejects ==
  /\ pc = "awaitRegistry"
  /\ replies' = Append(replies, [kind |-> "error", value |-> <<>>])
  /\ pc' = "rejected"
  /\ UNCHANGED <<revision, inputBox, outputBox, progressBar, progressText, conversion,
                 fetches, lookbehind, idleTimers, reports, suspended, clicks, latest>>

\* fetch or json() of the registry lookup throws (script.js:215-227).
RegistryError ==
  /\ pc = "awaitRegistry"
  /\ replies' = Append(replies, [kind |-> "error", value |-> <<>>])
  /\ Continue(inputText, MapSet(mapping, keys[idx], FallbackEntry(CurrentEntry)),
              keys, total, done + 1, idx + 1, reports, Resolved(done + 1))
  /\ latest' = Written
  /\ UNCHANGED <<revision, inputBox, suspended, clicks, call>>

\* The timer set at the end of convertText fires (script.js:299).
IdleTimeout ==
  /\ idleTimers > 0
  /\ idleTimers' = idleTimers - 1
  /\ setProgress(reports, << <<0, "Idle">> >>)
  /\ UNCHANGED <<revision, inputBox, outputBox, pc, conversion, fetches, replies, lookbehind,
                 suspended, clicks, latest>>

Next ==
  \/ ClickBlank
  \/ ClickNoMatches
  \/ ClickConvert
  \/ SourceNoItem
  \/ SourceItem
  \/ SourceError
  \/ RegistryTitle
  \/ RegistryNoSitelink
  \/ RegistryError
  \/ IdleTimeout

Spec == Init /\ [][Next]_vars

SpecPart001 == InitPart001 /\ [][Next]_vars

\* A response arrives: the step of SourceNoItem, SourceItem, SourceError,
\* RegistryTitle, RegistryNoSitelink or RegistryError, each of which adds
\* the reply it handles.
Answered == Len(replies') > Len(replies)

\* fetch settles its promise: a request that is out is answered or fails.
\* This is weak fairness of the six response actions together, which are
\* enabled exactly while the call awaits: either the call is again and again
\* not awaiting, or again and again a response arrives.
ResponseFairness ==
  \/ []<>(pc \notin {"awaitSource", "awaitRegistry"})
  \/ []<><<Answered>>_vars

\* The conversion when every request gets its response and the timer fires.
SpecFair == Spec /\ ResponseFairness /\ WF_vars(IdleTimeout)

\* ------------------------------------------------- one trigger after another
\* The handlers of convertBtn and of Ctrl+Enter (script.js:312-323) test
\* nothing before they call convertText, and convertBtn is never disabled: a
\* trigger may come while a conversion awaits a response, and after it has
\* returned.  Each call of convertText has its own locals; the variables pc,
\* conversion, fetches and replies show one call, suspended keeps the others
\* that await a response.

\* The position and the locals of the call in view.
Locals ==
  [pc |-> pc, inputText |-> inputText, mapping |-> mapping, keys |-> keys, idx |-> idx,
   total |-> total, done |-> done, wikibaseItem |-> wikibaseItem,
   fetches |-> fetches, replies |-> replies, call |-> call]

\* The call l comes into view.
View(l) ==
  /\ pc' = l.pc
  /\ inputText' = l.inputText
  /\ mapping' = l.mapping
  /\ keys' = l.keys
  /\ idx' = l.idx
  /\ total' = l.total
  /\ done' = l.done
  /\ wikibaseItem' = l.wikibaseItem
  /\ fetches' = l.fetches
  /\ replies' = l.replies
  /\ call' = l.call

\* A call of convertText that has not run yet.
NewCall ==
  [pc |-> "ready", inputText |-> <<>>, mapping |-> <<>>, keys |-> <<>>, idx |-> 0,
   total |-> 0, done |-> 0, wikibaseItem |-> Null, fetches |-> <<>>, replies |-> <<>>,
   call |-> 0]

Awaiting(l) == l.pc \in {"awaitSource", "awaitRegistry"}

\* A further click on Convert (or Ctrl+Enter) is dispatched: the handler
\* calls convertText anew (script.js:312-315), whatever the earlier call is
\* doing.  The Click action that follows is the new call's run up to its
\* first await.
Trigger ==
  /\ pc # "ready"
  /\ clicks < MaxClicks
  /\ suspended' = IF Awaiting(Locals) THEN Append(suspended, Locals) ELSE suspended
  /\ View(NewCall)
  /\ UNCHANGED <<revision, inputBox, outputBox, progressBar, progressText, lookbehind,
                 idleTimers, reports, clicks, latest>>

\* The response to a request of a suspended call arrives: the event loop
\* resumes that call (the action of the response follows).
Resume ==
  /\ pc # "ready"
  /\ \E n \in 1..Len(suspended) :
       /\ View(suspended[n])
       /\ suspended' =
            IF Awaiting(Locals) THEN [suspended EXCEPT ![n] = Locals]
            ELSE SubSeq(suspended, 1, n - 1) \o SubSeq(suspended, n + 1, Len(suspended))
  /\ UNCHANGED <<revision, inputBox, outputBox, progressBar, progressText, lookbehind,
                 idleTimers, reports, clicks, latest>>

NextUI ==
  \/ Next
  \/ Trigger
  \/ Resume

InitUI == InitOf("script.js", UIInputs)

SpecUI == InitUI /\ [][NextUI]_vars

\* ------------------------------------------------------------------- Clear

\* Click on Clear (script.js:325-328): both boxes are emptied, whatever the
\* calls of convertText are doing; they are not told.  (A handler runs to its
\* end before the next event: no click between Trigger and the call's run.)
Clear ==
  /\ pc = "ready" => clicks = 0
  /\ inputBox' = <<>>
  /\ outputBox' = <<>>
  /\ UNCHANGED <<revision, progressBar, progressText, pc, conversion, fetches, replies,
                 lookbehind, idleTimers, reports, suspended, clicks, latest>>

NextClear ==
  \/ NextUI
  \/ Clear

\* Triggers, responses and presses of Clear in any order.
SpecClear == InitUI /\ [][NextClear]_vars

\* ------------------------------------------------------------- properties

\* The keys of the conversion that ended up without a target title.
Unresolved(k) == MapHas(mapping, k) /\ mapping[MapIndex(mapping, k)].targetTitleRaw = Null

\* The texts between the bracketed spans of s, in order.
BareTexts(s) ==
  LET parts == SplitParts(s, 1)
  IN [i \in 1..((Len(parts) + 1) \div 2) |-> parts[2 * i - 1].text]

\* C1 as stated: a conversion of a text without [[...]] span issues no
\* lookup and its output equals the input character for character, blank
\* texts included.
C1_NoSpansOutputIsInput ==
  (pc = "returned" /\ BracketMatches(inputText) = <<>>)
    => (fetches = <<>> /\ outputBox = inputText)

\* C1, amended: a conversion of a text without [[...]] span issues no lookup;
\* its output equals the input when the input has a character that is not
\* whitespace, and is empty when the input is empty or whitespace only.
C1_NoSpansCopiedOrCleared ==
  (pc = "returned" /\ BracketMatches(inputText) = <<>>)
    => /\ fetches = <<>>
       /\ outputBox = IF Trim(inputText) = <<>> THEN <<>> ELSE inputText

\* A text with an unclosed "[[" and padding was converted and copied.
C1_Witness ==
  /\ pc = "returned"
  /\ inputText = <<"[", "[", " ", "a", " ">>
  /\ outputBox = inputText
  /\ fetches = <<>>

\* C2: after the bare-text pass the bracketed spans of the output are the
\* spans the bracket pass produced, interiors unchanged.
C2_BarePassKeepsSpans ==
  (pc = "returned" /\ mapping # <<>>)
    => BracketMatches(outputBox) = BracketMatches(BracketPass(inputText, mapping))

\* C3: a span whose key could not be resolved appears in the output as it was
\* written in the input (display text and padding included), and when no key
\* could be resolved the text between the spans is unchanged too.
C3_FallbackKeepsOriginal ==
  (pc = "returned" /\ mapping # <<>>)
    => LET before == BracketMatches(inputText)
           after == BracketMatches(outputBox)
       IN /\ \A i \in 1..Len(before) :
               Unresolved(NormalizeKey(before[i].inner))
                 => i <= Len(after) /\ after[i].full = before[i].full
          /\ (\A i \in 1..Len(mapping) : mapping[i].targetTitleRaw = Null)
               => BareTexts(outputBox) = BareTexts(inputText)

\* The distinct keys of a text as the specification words them: of each
\* bracket interior the part before the first "|", trimmed.
InputKeys(text) ==
  LET ms == BracketMatches(text)
  IN {Trim(SplitFirst(ms[i].inner, "|")) : i \in 1..Len(ms)}

\* How many requests to api the conversion issued for the key k.
Lookups(api, k) ==
  Cardinality({j \in 1..Len(fetches) : fetches[j].api = api /\ keys[fetches[j].key] = k})

\* The last reply received for the i-th key.
LastReply(i) ==
  LET J == {j \in 1..Len(replies) : fetches[j].key = i}
  IN replies[CHOOSE j \in J : \A l \in J : l <= j]

\* The entry a key gets from the last reply to its own lookups.
EntryAfter(k, reply) ==
  IF reply.kind = "title" THEN ResolvedEntry(NewEntry(k), reply.value)
  ELSE FallbackEntry(NewEntry(k))

\* C4: the source lookup is issued at most once per distinct key and, when
\* the conversion has ended, exactly once; the registry lookup at most once
\* per key, directly after that key's source lookup answered with an id and
\* for that id.
C4_OneLookupPairPerKey ==
  LET K == InputKeys(inputText)
  IN (pc # "ready" /\ K # {})
       => /\ \A k \in K : /\ Lookups("wikipedia", k) <= 1
                          /\ Lookups("wikidata", k) <= Lookups("wikipedia", k)
          /\ pc = "returned" => \A k \in K : Lookups("wikipedia", k) = 1
          /\ \A j \in 1..Len(fetches) :
               IF fetches[j].api = "wikipedia"
               THEN fetches[j].arg \in K /\ fetches[j].arg = keys[fetches[j].key]
               ELSE /\ j > 1
                    /\ fetches[j - 1].api = "wikipedia"
                    /\ fetches[j - 1].key = fetches[j].key
                    /\ replies[j - 1].kind = "item"
                    /\ replies[j - 1].value = fetches[j].arg

\* Two spans with one key were converted with one pair of lookups.
C4_Witness ==
  /\ pc = "returned"
  /\ Len(BracketMatches(inputText)) = 2
  /\ Len(keys) = 1
  /\ Len(fetches) = 2
  /\ fetches[2].api = "wikidata"

\* C5: after extraction the keys of the mapping are the distinct trimmed,
\* pipe-stripped bracket interiors of the input, one entry each, and the
\* key of every span of the input is in the mapping (with a replacement once
\* the conversion has ended).
C5_KeysAreNormalizedInteriors ==
  (pc \in {"awaitSource", "awaitRegistry", "returned"} /\ BracketMatches(inputText) # <<>>)
    => LET ms == BracketMatches(inputText)
       IN /\ {mapping[i].sourceTitle : i \in 1..Len(mapping)} = InputKeys(inputText)
          /\ Len(mapping) = Cardinality(InputKeys(inputText))
          /\ keys = MapKeys(mapping)
          /\ \A i \in 1..Len(ms) :
               /\ MapHas(mapping, NormalizeKey(ms[i].inner))
               /\ pc = "returned"
                    => Truthy(mapping[MapIndex(mapping, NormalizeKey(ms[i].inner))].bracketReplacement)

\* A plain span and a padded span with display text share one entry.
C5_Witness ==
  /\ pc = "awaitSource"
  /\ inputText = <<"[", "[", "a", "]", "]", "[", "[", " ", "a", " ", "|", "b", "]", "]">>
  /\ keys = << <<"a">> >>

\* C6: when the loop has ended every entry has a bracketReplacement and a
\* plainReplacement (neither null nor undefined), and an entry whose last
\* lookup found nothing or failed has "[[" + sourceTitle + "]]" and
\* sourceTitle.
C6_EntriesComplete ==
  (pc = "returned" /\ mapping # <<>>)
    => \A i \in 1..Len(mapping) :
         /\ mapping[i].bracketReplacement \notin {Null, Undefined}
         /\ mapping[i].plainReplacement \notin {Null, Undefined}
         /\ LastReply(i).kind \in {"none", "error"}
              => /\ mapping[i].bracketReplacement = LBracket \o mapping[i].sourceTitle \o RBracket
                 /\ mapping[i].plainReplacement = mapping[i].sourceTitle

\* A conversion ended with one entry per outcome: no item, then a title.
C6_Witness ==
  /\ pc = "returned"
  /\ Len(mapping) = 2
  /\ replies[1].kind = "none"
  /\ mapping[1].plainReplacement = mapping[1].sourceTitle
  /\ mapping[2].targetTitleRaw \in TargetTitles

\* C7: a failed lookup never ends the conversion early: the key gets the
\* fallback entry, the loop goes on to the next key (or to the output when it
\* was the last), every finished key's entry is what its own last reply
\* gives, and the output is composed from the mapping.
C7_FailureIsContained ==
  /\ pc \in {"ready", "awaitSource", "awaitRegistry", "returned"}
  /\ \A j \in 1..Len(replies) :
       replies[j].kind = "error"
         => LET i == fetches[j].key
            IN /\ idx > i
               /\ mapping[i] = FallbackEntry(NewEntry(keys[i]))
               /\ i < total => \E l \in (j + 1)..Len(fetches) :
                                 fetches[l].api = "wikipedia" /\ fetches[l].key = i + 1
               /\ i = total => pc = "returned" /\ lookbehind # "unprobed"
  /\ \A i \in 1..Len(mapping) :
       i < idx => mapping[i] = EntryAfter(keys[i], LastReply(i))
  /\ (pc = "returned" /\ mapping # <<>>)
       => outputBox = ComposeOutput(inputText, mapping, lookbehind = "supported", revision)

\* The first key's source lookup failed, the second key was resolved and the
\* output was written.
C7_Witness ==
  /\ pc = "returned"
  /\ Len(mapping) = 2
  /\ replies[1].kind = "error"
  /\ mapping[1].targetTitleRaw = Null
  /\ mapping[2].targetTitleRaw \in TargetTitles
  /\ outputBox # <<>>

\* Does a bracket replacement end with the pipe marker, "|]]"?
EndsWithPipeMarker(b) == Len(b) >= 3 /\ Sub(b, Len(b) - 2, Len(b)) = <<"|", "]", "]">>

\* Does a title hold a parenthesized segment, "(" ... ")" around any content?
HasParenSegment(t) == \E i \in 1..Len(t) : \E j \in (i + 1)..Len(t) : t[i] = "(" /\ t[j] = ")"

\* C8: for every resolved entry bracketReplacement ends with the pipe marker
\* exactly when the target title holds a parenthesized segment, and exactly
\* when plainReplacement is the target title with something stripped.
C8_PipeMarkerIffParentheses ==
  \A i \in 1..Len(mapping) :
    mapping[i].targetTitleRaw \notin {Null, Undefined}
      => /\ EndsWithPipeMarker(mapping[i].bracketReplacement)
              <=> HasParenSegment(mapping[i].targetTitleRaw)
         /\ EndsWithPipeMarker(mapping[i].bracketReplacement)
              <=> mapping[i].plainReplacement # mapping[i].targetTitleRaw

\* Does a key end with a parenthesized suffix?
HasParenSuffix(k) == k # <<>> /\ k[Len(k)] = ")" /\ Includes(k, "(")

\* C9: after a conversion no occurrence between spaces of a resolved key with
\* a parenthesized suffix is left in the text outside the spans: each was
\* replaced by the plain replacement.
C9_ParenKeyBareReplaced ==
  pc = "returned"
    => \A i \in 1..Len(mapping) :
         (mapping[i].targetTitleRaw \notin {Null, Undefined} /\ HasParenSuffix(mapping[i].sourceTitle))
           => LET bare == BareTexts(outputBox)
              IN \A n \in 1..Len(bare) :
                   IndexOf(bare[n], <<" ">> \o mapping[i].sourceTitle \o <<" ">>, 1) = 0

\* The input with every span replaced by [[t]] and, outside the spans, every
\* occurrence of the word k at word boundaries replaced by t.
ExpectedSingleKey(text, k, t) ==
  LET parts == SplitParts(text, 1)
  IN Concat([i \in 1..Len(parts) |->
               IF parts[i].bracket THEN LBracket \o t \o RBracket
               ELSE ReplaceFrom(parts[i].text,
                                [alts |-> <<escapeRegExp(k)>>, guarded |-> FALSE,
                                 ignoreCase |-> FALSE], t, 1)])

\* C10: when the only key is a word of ASCII letters resolved to a title
\* without parentheses, the output is the input with the spans replaced by
\* [[title]] and the bare occurrences of the key by the title, nothing else
\* changed.
C10_SingleWordKeyOutput ==
  ( /\ pc = "returned"
    /\ Len(mapping) = 1
    /\ mapping[1].sourceTitle # <<>>
    /\ \A j \in 1..Len(mapping[1].sourceTitle) : IsWordChar(mapping[1].sourceTitle[j])
    /\ mapping[1].targetTitleRaw \notin {Null, Undefined}
    /\ ~Includes(mapping[1].targetTitleRaw, "(")
    /\ ~Includes(mapping[1].targetTitleRaw, ")") )
    => outputBox = ExpectedSingleKey(inputText, mapping[1].sourceTitle, mapping[1].targetTitleRaw)

\* C11: conversions never overlap: while a call of convertText awaits a
\* response no other call has been started by a further trigger, so no two
\* calls have a lookup outstanding and no other call writes the output.
C11_ConversionsNeverOverlap ==
  (\E n \in 1..Len(suspended) : Awaiting(suspended[n])) => pc = "ready"

\* The keys of a text in the order of their first spans.
KeysInOrder(text) == MapKeys(Extract(BracketMatches(text), <<>>))

\* C12: at most one request of the conversion is unanswered, the keys are
\* looked up in the order of their first spans, and when the source lookup of
\* a key is issued every request for an earlier key has been answered and
\* every earlier key has its entry, while the later keys have none yet.
C12_OneLookupAtATimeInOrder ==
  (pc \in {"awaitSource", "awaitRegistry", "returned"} /\ mapping # <<>>)
    => /\ Len(fetches) - Len(replies) = (IF pc = "returned" THEN 0 ELSE 1)
       /\ keys = KeysInOrder(inputText)
       /\ \A j \in 1..Len(fetches) : \A l \in 1..Len(fetches) :
            j < l => /\ fetches[j].key <= fetches[l].key
                     /\ fetches[j].api = fetches[l].api => fetches[j].key < fetches[l].key
       /\ {fetches[j].key : j \in 1..Len(fetches)} = 1..Min({idx, total})
       /\ \A i \in 1..Len(mapping) :
            IF i < idx
            THEN /\ Truthy(mapping[i].bracketReplacement)
                 /\ mapping[i].plainReplacement \notin {Null, Undefined}
                 /\ \A j \in 1..Len(fetches) : fetches[j].key = i => j <= Len(replies)
            ELSE mapping[i] = NewEntry(keys[i])

\* The source lookup of the second key is out, after the first key got both
\* its answers and its entry.
C12_Witness ==
  /\ pc = "awaitSource"
  /\ idx = 2
  /\ Len(fetches) = 3
  /\ Len(replies) = 2
  /\ mapping[1].targetTitleRaw \in TargetTitles
  /\ mapping[2] = NewEntry(keys[2])

\* C13: the percentages reported from "Starting" to "Done" never decrease:
\* of two calls of setProgress of a conversion the later gives no smaller
\* percentage (the timer's "Idle" aside).
C13_ProgressNeverDecreases ==
  \A i \in 1..Len(reports) : \A j \in 1..Len(reports) :
    (i < j /\ reports[i][2] # "Idle" /\ reports[j][2] # "Idle")
      => reports[i][1] <= reports[j][1]

\* C19: the counter of resolved keys never exceeds the number of keys, and
\* every percentage given to setProgress lies between 0 and 100.
C19_CounterAndPercentagesInRange ==
  /\ done <= total
  /\ progressBar \in 0..100
  /\ \A i \in 1..Len(reports) : reports[i][1] \in 0..100

\* C14: the two implementations of the bare-text pass agree: on the text the
\* bracket pass produced and with the mapping of the conversion, the branch
\* for engines with lookbehind and the segment-split branch give one output.
C14_BareBranchesAgree ==
  (pc = "returned" /\ mapping # <<>>)
    => BarePass(BracketPass(inputText, mapping), mapping, TRUE, revision)
         = BarePass(BracketPass(inputText, mapping), mapping, FALSE, revision)

\* The key of a whole span "[[...]]" as the specification words it.
SpanKey(span) == Trim(SplitFirst(Sub(span, 3, Len(span) - 2), "|"))

\* The text with every span replaced by the bracketReplacement of its key
\* and everything between the spans as it was.
SpansReplaced(text, m) ==
  LET parts == SplitParts(text, 1)
  IN Concat([i \in 1..Len(parts) |->
               IF parts[i].bracket
               THEN m[MapIndex(m, SpanKey(parts[i].text))].bracketReplacement
               ELSE parts[i].text])

\* C15: the bracket pass replaces every span of the input by exactly the
\* bracketReplacement of the span's key and changes nothing between the
\* spans, and the output is the bare-text pass applied to that whole text.
C15_BracketPassReplacesSpansOnly ==
  (pc = "returned" /\ mapping # <<>>)
    => /\ BracketPass(inputText, mapping) = SpansReplaced(inputText, mapping)
       /\ outputBox = BarePass(SpansReplaced(inputText, mapping), mapping,
                               lookbehind = "supported", revision)

\* A padded span with display text, followed by bare text, was converted
\* with its key resolved.
C15_Witness ==
  /\ pc = "returned"
  /\ inputText = <<"[", "[", " ", "a", " ", "|", "b", "]", "]", " ", "a", " ">>
  /\ mapping[1].targetTitleRaw = <<"b", " ", "(", "a", ")">>
  /\ BracketPass(inputText, mapping)
       = <<"[", "[", "b", " ", "(", "a", ")", "|", "]", "]", " ", "a", " ">>

\* Is k a word of letters that are not ASCII?
NonAsciiWord(k) == k # <<>> /\ \A j \in 1..Len(k) : k[j] = "த"

\* C16: after a conversion no occurrence between spaces of a resolved key
\* made of non-ASCII letters is left in the text outside the spans: each was
\* replaced by the plain replacement.
C16_NonLatinKeyBareReplaced ==
  pc = "returned"
    => \A i \in 1..Len(mapping) :
         (mapping[i].targetTitleRaw \notin {Null, Undefined} /\ NonAsciiWord(mapping[i].sourceTitle))
           => LET bare == BareTexts(outputBox)
              IN \A n \in 1..Len(bare) :
                   IndexOf(bare[n], <<" ">> \o mapping[i].sourceTitle \o <<" ">>, 1) = 0

\* The characters that are c in one letter case or the other.
CaseClass(c) == {d \in WordChars \cup {c} : CaseFold(d) = CaseFold(c)}

RECURSIVE Spellings(_)
\* The ways to write k in upper and lower case letters.
Spellings(k) ==
  IF k = <<>> THEN {<<>>}
  ELSE {<<c>> \o t : c \in CaseClass(Head(k)), t \in Spellings(Tail(k))}

\* How many times pat occurs in the texts between the spans of s.
BareOccurrences(s, pat) ==
  LET bare == BareTexts(s)
  IN Cardinality({<<n, p>> \in (1..Len(bare)) \X (1..Len(s)) : StartsAt(bare[n], pat, p)})

\* The words that differ from the key k in letter case only.
CaseVariants(k) == Spellings(k) \ {k}

C17_ConversionTerminates ==
  /\ (pc \in {"awaitSource", "awaitRegistry"})
       ~> (/\ pc = "returned"
           /\ idx = total + 1
           /\ progressText = "Done"
           /\ outputBox = ComposeOutput(inputText, mapping, lookbehind = "supported", revision))
  /\ [][idx <= idx' /\ (pc = "returned" => pc' = "returned")]_vars
  /\ [](\A j \in 1..Len(fetches) : \A l \in 1..Len(fetches) :
          (j # l /\ fetches[j].api = fetches[l].api) => fetches[j].key # fetches[l].key)

\* A conversion of two keys has returned, two requests each, and reports
\* "Done".
C17_Witness ==
  /\ pc = "returned"
  /\ Len(keys) = 2
  /\ Len(replies) = 4
  /\ progressText = "Done"
  /\ reports[Len(reports)] = <<100, "Done">>

\* C20: after a trigger the indicator gets back to 0% "Idle": when the
\* conversion has returned, either the timer that sets "Idle" is pending or
\* the indicator shows 0% "Idle"; it is not left at "Starting".
C20_IndicatorReturnsToIdle ==
  (pc = "returned" /\ idleTimers = 0)
    => (progressBar = 0 /\ progressText = "Idle")

\* The orders the entries of a Map of n keys can be in.
Orders(n) == {p \in [1..n -> 1..n] : \A i \in 1..n : \A j \in 1..n : p[i] = p[j] => i = j}

\* The Map m with its entries inserted in the order p.
Reordered(m, p) == [i \in 1..Len(m) |-> m[p[i]]]

\* C21: the output of a conversion is the same in whatever order the keys
\* stand in the mapping, that is, in whatever order the input has their
\* first spans: no round of the bare-text pass rewrites what another round
\* has inserted.
C21_BarePassOrderIndependent ==
  (pc = "returned" /\ mapping # <<>>)
    => \A p \in Orders(Len(mapping)) :
         outputBox = ComposeOutput(inputText, Reordered(mapping, p),
                                   lookbehind = "supported", revision)

\* No call of convertText awaits a response or is about to run.
Quiescent == pc \notin {"ready", "awaitSource", "awaitRegistry"} /\ suspended = <<>>

\* C22: when a conversion was triggered and none is in progress, the output
\* box holds what the call of the last trigger has written; it is empty when
\* the input box is empty, for then Clear was pressed after that trigger or
\* the call has read an empty input (nothing else changes the input box
\* here).
C22_OutputIsOfLastTrigger ==
  (Quiescent /\ clicks > 0)
    => outputBox = (IF inputBox = <<>> THEN <<>> ELSE latest)

====
